---- MODULE Spec2Model ----
(***************************************************************************)
(* A model of the heleus client: config.py (ConfigManager), client.py      *)
(* (PerseusClient) and cli.py (the command line entry point main).         *)
(*                                                                         *)
(* Text that the code inspects character by character or derives from a    *)
(* file name (local paths, application names) is a sequence of one         *)
(* character strings; other text (version names, hosts, messages) is a     *)
(* string.  A request path is the sequence of its "/"-separated segments.  *)
(* The server and the local environment answer nondeterministically.       *)
(***************************************************************************)
EXTENDS Integers, Sequences, FiniteSets, TLC

VARIABLES
    cfgFile,      \* ~/.heleus/config.json: [state, config]
    defaultCfg,   \* the module global DEFAULT_CONFIG of config.py (a mutable dict)
    build,        \* what the installed libraries do where the source leaves it open
    baseUrl,      \* PerseusClient.base_url of the library client object
    localFiles,   \* local paths a push may name: path -> [kind, data]
    dirs,         \* directories of the current working directory
    files,        \* files of the current working directory: path -> bytes
    call,         \* the last invocation: [op, ...arguments]
    resp,         \* the server's answers in the last invocation: [status, op]
    reqs,         \* the HTTP requests the last invocation issued, in order
    extracted,    \* the archive entries the last invocation extracted, in order
    result,       \* what the last client method returned or raised
    exit,         \* how the last run of main ended
    registry,     \* repository service: application -> latest content hash
    store,        \* repository service: content hash -> bytes
    snapshots,    \* repository service: frozen version -> (application -> hash)
    cfgWriter,    \* history: who wrote the config file last, and what
    pushed,       \* history: application -> the bytes of its latest accepted push
    frozen        \* history: version -> (application -> bytes pushed) at its freeze

vars == <<cfgFile, defaultCfg, build, baseUrl, localFiles, dirs, files, call,
          resp, reqs, extracted, result, exit, registry, store, snapshots,
          cfgWriter, pushed, frozen>>

fsVars == <<cfgFile, localFiles, dirs, files>>
repoVars == <<registry, store, snapshots, pushed, frozen>>
callVars == <<call, resp, reqs, extracted, result, exit>>

----------------------------------------------------------------------------
(* Bounds of the model *)

\* iter_content(chunk_size=8192), scaled down: the bytes of one chunk
ChunkSize == 2
\* the longest artifact, in bytes
MaxBytes == 3

----------------------------------------------------------------------------
(* Text *)

Lower(c) ==
    CASE c = "A" -> "a" [] c = "P" -> "p" [] c = "K" -> "k" [] c = "X" -> "x"
      [] OTHER -> c

\* str.lower()
lower(s) == [i \in 1..Len(s) |-> Lower(s[i])]

\* str.endswith(suffix)
endswith(s, suffix) ==
    /\ Len(s) >= Len(suffix)
    /\ SubSeq(s, Len(s) - Len(suffix) + 1, Len(s)) = suffix

DotApk == <<".", "a", "p", "k">>

\* os.path.join(a, b)
path_join(a, b) == a \o <<"/">> \o b

RECURSIVE LastSlash(_, _)
LastSlash(s, i) ==
    IF i = 0 THEN 0 ELSE IF s[i] = "/" THEN i ELSE LastSlash(s, i - 1)

\* os.path.basename(path)
basename(p) == SubSeq(p, LastSlash(p, Len(p)) + 1, Len(p))

----------------------------------------------------------------------------
(* config.py *)

DefaultPort == 5000

DEFAULT_CONFIG == [server |-> [host |-> "localhost", port |-> DefaultPort]]

\* a config file that is absent, or present but not valid JSON, holds no dict
NoConfig == [server |-> [host |-> "", port |-> 0]]
MissingFile == [state |-> "missing", config |-> NoConfig]
InvalidFile == [state |-> "invalid", config |-> NoConfig]

\* ConfigManager.save_config: json.dump of the dict into the file
save_config(config) == [state |-> "ok", config |-> config]

\* ConfigManager.load_config: the parsed file, or the DEFAULT_CONFIG object
\* itself (alias) when the file is missing or does not parse
load_config(file, default) ==
    IF file.state = "ok"
    THEN [alias |-> FALSE, config |-> file.config]
    ELSE [alias |-> TRUE, config |-> default]

\* ConfigManager._ensure_config_exists (exists() is true of an unparsable file)
ensure_config_exists(file, default) ==
    IF file.state = "missing" THEN save_config(default) ELSE file

\* ConfigManager.get_server_url
get_server_url(file, default) ==
    LET config == load_config(file, default).config
    IN  "http://" \o config.server.host \o ":" \o ToString(config.server.port)

\* ConfigManager.get_server_info
get_server_info(file, default) == load_config(file, default).config.server

\* ConfigManager.set_server: the loaded dict is updated in place and saved;
\* when the loaded dict is DEFAULT_CONFIG the module global is what changes
set_server(file, default, host, port) ==
    LET loaded == load_config(file, default)
        config == [loaded.config EXCEPT !.server = [host |-> host, port |-> port]]
    IN  [file    |-> save_config(config),
         default |-> IF loaded.alias THEN config ELSE default]

\* history of the config file: the writer of its present content
NoWriter == [by |-> "nobody", host |-> "", port |-> 0]
SetServerWriter(host, port) == [by |-> "set_server", host |-> host, port |-> port]
DefaultWriter == [by |-> "_ensure_config_exists", host |-> "", port |-> 0]

\* the writer after a step from the file before to the file after, in which
\* set_server ran with setter (NoWriter: it did not run)
WrittenBy(before, after, setter) ==
    CASE setter # NoWriter -> setter
      [] before.state = "missing" /\ after.state = "ok" -> DefaultWriter
      [] OTHER -> cfgWriter

----------------------------------------------------------------------------
(* Requests, responses and results *)

EmptyObj == [k \in {} |-> ""]
NoUpload == [name |-> <<>>, data |-> <<>>]

Request(method, base, path, upload) ==
    [method |-> method, base |-> base, path |-> path, upload |-> upload]

GET(base, path) == Request("GET", base, path, NoUpload)

\* a response body: a JSON object (val: key -> value), a JSON value that is
\* no object ("array"), text that is not JSON, artifact bytes, or an archive
\* ("zip", entries: its entries [name, data] in order)
Body(kind, val, bytes, entries) ==
    [kind |-> kind, val |-> val, bytes |-> bytes, entries |-> entries]
JsonObject(val) == Body("object", val, <<>>, <<>>)
JsonArray == Body("array", EmptyObj, <<>>, <<>>)
NotJson == Body("notjson", EmptyObj, <<>>, <<>>)
Bytes(bytes) == Body("bytes", EmptyObj, bytes, <<>>)
Zip(entries) == Body("zip", EmptyObj, <<>>, entries)
NoBody == Body("none", EmptyObj, <<>>, <<>>)

NoCut == 0 - 1

\* exc: requests.get/post raised RequestException before any response;
\* cut: the body chunks received before the stream raises (NoCut: never)
Response(exc, status, body, cut) ==
    [exc |-> exc, status |-> status, body |-> body, cut |-> cut]

NoResp == Response(FALSE, 0, NoBody, NoCut)
ConnError == Response(TRUE, 0, NoBody, NoCut)

\* a Python dict built by the client
Dict(val) == JsonObject(val)

\* what an invocation did: returned (ok, data), or raised exc
Return(ok, data) == [kind |-> "return", ok |-> ok, data |-> data, exc |-> ""]
Raise(exc) == [kind |-> "raise", ok |-> FALSE, data |-> Dict(EmptyObj), exc |-> exc]

\* str(e) of the transport failures
ConnText == "connection failed"
StreamText == "connection broken"
JsonText == "Expecting value"

\* dict.get(key, default)
get(d, key, default) == IF key \in DOMAIN d THEN d[key] ELSE default

\* the effect of one client method
Effect(rq, res, d, f, ex) ==
    [reqs |-> rq, result |-> res, dirs |-> d, files |-> f, extracted |-> ex]

----------------------------------------------------------------------------
(* client.py *)

\* response.json(): the parsed body, or the decoding error.  requests from
\* 2.27 on raises its own JSONDecodeError, a RequestException; older
\* releases let the json module's ValueError through.
json(r) ==
    IF r.body.kind \in {"object", "array"}
    THEN [raises |-> "", val |-> r.body]
    ELSE [raises |-> IF build.jsonErrorIsRequestException
                     THEN "RequestException" ELSE "ValueError",
          val |-> NoBody]

\* return True, response.json()   inside try/except RequestException
SuccessBody(r, prefix) ==
    LET j == json(r)
    IN  CASE j.raises = "" -> Return(TRUE, j.val)
          [] j.raises = "RequestException" ->
                Return(FALSE, Dict([error |-> prefix \o JsonText]))
          [] OTHER -> Raise(j.raises)

\* return False, {"error": response.json().get('error', 'Unknown error')}
\* inside try/except RequestException
ErrorBody(r, prefix) ==
    LET j == json(r)
    IN  CASE j.raises = "RequestException" ->
                Return(FALSE, Dict([error |-> prefix \o JsonText]))
          [] j.raises # "" -> Raise(j.raises)
          [] j.val.kind # "object" -> Raise("AttributeError")
          [] OTHER ->
                Return(FALSE, Dict([error |-> get(j.val.val, "error", "Unknown error")]))

\* if response.status_code == 200: return True, response.json()
\* return False, {"error": ...}
StatusOutcome(r, prefix) ==
    IF r.status = 200 THEN SuccessBody(r, prefix) ELSE ErrorBody(r, prefix)

\* except requests.RequestException as e: return False, {"error": prefix + str(e)}
TransportError(prefix, text) == Return(FALSE, Dict([error |-> prefix \o text]))

\* the shape shared by freeze and the three list methods: one GET, then the
\* outcome by status
JsonGet(base, path, r, prefix) ==
    Effect(<<GET(base, path)>>,
           IF r.exc THEN TransportError(prefix, ConnText) ELSE StatusOutcome(r, prefix),
           dirs, files, <<>>)

\* PerseusClient.check_server_status
check_server_status(base, r) ==
    [reqs |-> <<GET(base, <<"api", "v1", "status">>)>>,
     up   |-> IF r.exc THEN FALSE ELSE r.status = 200]

\* PerseusClient.freeze
freeze(base, version, r) ==
    JsonGet(base, <<"api", "v1", "freeze", version>>, r, "Error freezing version: ")

\* PerseusClient.list_versions
list_versions(base, r) ==
    JsonGet(base, <<"api", "v1", "versions">>, r, "Error listing versions: ")

\* PerseusClient.list_apps
list_apps(base, r) ==
    JsonGet(base, <<"api", "v1", "apps">>, r, "Error listing apps: ")

\* PerseusClient.list_all_app_versions
list_all_app_versions(base, r) ==
    JsonGet(base, <<"api", "v1", "apps", "all">>, r, "Error listing app versions: ")

\* os.path.exists(apk_path)
exists(apk_path) == apk_path \in DOMAIN localFiles

\* PushCheck without its extension check
PushCheck_NoExtensionCheck(apk_path) ==
    IF apk_path \notin DOMAIN localFiles THEN "not found" ELSE "ok"

\* the local checks of push, in the order of the code
PushCheck(apk_path) ==
    IF ~exists(apk_path) THEN "not found"
    ELSE IF ~endswith(lower(apk_path), DotApk) THEN "not apk"
    ELSE "ok"

\* PerseusClient.push
push(base, apk_path, r) ==
    LET check  == PushCheck(apk_path)
        upload == [name |-> basename(apk_path), data |-> localFiles[apk_path].data]
        rq     == Request("POST", base, <<"api", "v1", "push">>, upload)
        prefix == "Error pushing APK: "
    IN  CASE check = "not found" ->
                Effect(<<>>,
                       Return(FALSE, Dict([error |-> <<"APK file '", apk_path, "' not found">>])),
                       dirs, files, <<>>)
          [] check = "not apk" ->
                Effect(<<>>, Return(FALSE, Dict([error |-> "File must be an APK"])),
                       dirs, files, <<>>)
          [] localFiles[apk_path].kind = "dir" ->
                \* open(apk_path, 'rb') of a directory
                Effect(<<>>, Raise("IsADirectoryError"), dirs, files, <<>>)
          [] r.exc ->
                Effect(<<rq>>, TransportError(prefix, ConnText), dirs, files, <<>>)
          [] OTHER ->
                Effect(<<rq>>, StatusOutcome(r, prefix), dirs, files, <<>>)

\* an optional argument: None, or a value
NoneArg == [some |-> FALSE, val |-> <<>>]
Some(v) == [some |-> TRUE, val |-> v]

\* "if app_name:" is false of None and of the empty string
truthy(arg) == arg.some /\ arg.val # <<>>

Min(a, b) == IF a <= b THEN a ELSE b

\* response.iter_content(chunk_size): the body in pieces of at most ChunkSize
RECURSIVE iter_content(_)
iter_content(bytes) ==
    IF Len(bytes) = 0 THEN <<>>
    ELSE <<SubSeq(bytes, 1, Min(ChunkSize, Len(bytes)))>>
         \o iter_content(SubSeq(bytes, Min(ChunkSize, Len(bytes)) + 1, Len(bytes)))

\* the body as the bytes on the wire (an archive, or text: one unit each)
Content(r) ==
    CASE r.body.kind = "bytes" -> r.body.bytes
      [] r.body.kind = "zip" -> r.body.entries
      [] OTHER -> <<r.body.kind>>

\* the chunks the loop receives before the stream ends or raises
Received(r) ==
    LET chunks == iter_content(Content(r))
    IN  IF r.cut = NoCut THEN chunks ELSE SubSeq(chunks, 1, Min(r.cut, Len(chunks)))

\* whether iterating the body raises a RequestException
StreamFails(r) == r.cut # NoCut

RECURSIVE Concat(_)
Concat(chunks) ==
    IF Len(chunks) = 0 THEN <<>> ELSE Head(chunks) \o Concat(Tail(chunks))

\* Write opening the file for append: what the file held stays in front
Write_Append(f, path, data) ==
    [q \in DOMAIN f \cup {path} |->
        IF q # path THEN f[q] ELSE IF path \in DOMAIN f THEN f[path] \o data ELSE data]

\* open(path, 'wb') and the writes that follow: the file holds exactly data
Write(f, path, data) ==
    [q \in DOMAIN f \cup {path} |-> IF q = path THEN data ELSE f[q]]

\* ExtractAll stopping after the first entry
ExtractAll_FirstOnly(f, log, entries) ==
    IF Len(entries) = 0 THEN [files |-> f, extracted |-> log]
    ELSE [files |-> Write(f, Head(entries).name, Head(entries).data),
          extracted |-> Append(log, Head(entries).name)]

\* for file in zip_ref.filelist: zip_ref.extract(file)
\* each entry is written under its name, in the order of the archive; log is
\* the sequence of extract calls made so far
\* (entry names are single path components, as the protocol names them)
RECURSIVE ExtractAll(_, _, _)
ExtractAll(f, log, entries) ==
    IF Len(entries) = 0 THEN [files |-> f, extracted |-> log]
    ELSE ExtractAll(Write(f, Head(entries).name, Head(entries).data),
                    Append(log, Head(entries).name), Tail(entries))

\* PullPath leaving "latest" out of the path of a named application too
PullPath_OmitsLatest(app_name, version) ==
    IF version = "latest"
    THEN IF truthy(app_name) THEN <<"api", "v1", "pull", app_name.val>>
         ELSE <<"api", "v1", "pull">>
    ELSE IF truthy(app_name) THEN <<"api", "v1", "pull", version, app_name.val>>
         ELSE <<"api", "v1", "pull", version>>

\* the request path pull chooses from its arguments
PullPath(app_name, version) ==
    IF truthy(app_name)
    THEN <<"api", "v1", "pull", version, app_name.val>>
    ELSE IF version # "latest"
         THEN <<"api", "v1", "pull", version>>
         ELSE <<"api", "v1", "pull">>

\* PullOne asking again after a failed transfer
PullOne_Retry(rq, app, r) ==
    IF r.exc \/ StreamFails(r)
    THEN Effect(<<rq, rq>>, TransportError("Error pulling APK(s): ", ConnText),
                dirs, files, <<>>)
    ELSE Effect(<<rq>>, Return(TRUE, Dict([message |-> "ok"])), dirs, files, <<>>)

\* PerseusClient.pull, the branch of a named application
PullOne(rq, app, r) ==
    LET prefix      == "Error pulling APK(s): "
        output_path == path_join(app, app \o DotApk)
        written     == Write(files, output_path, Concat(Received(r)))
    IN  CASE r.exc -> Effect(<<rq>>, TransportError(prefix, ConnText), dirs, files, <<>>)
          [] r.status = 200 /\ StreamFails(r) ->
                Effect(<<rq>>, TransportError(prefix, StreamText),
                       dirs \cup {app}, written, <<>>)
          [] r.status = 200 ->
                Effect(<<rq>>,
                       Return(TRUE, Dict([message |-> <<"Successfully downloaded to ", output_path>>])),
                       dirs \cup {app}, written, <<>>)
          [] OTHER -> Effect(<<rq>>, ErrorBody(r, prefix), dirs, files, <<>>)

\* PerseusClient.pull, the branch of a bundle
PullBundle(rq, version, r) ==
    LET prefix == "Error pulling APK(s): "
    IN  CASE r.exc -> Effect(<<rq>>, TransportError(prefix, ConnText), dirs, files, <<>>)
          [] r.status = 200 /\ StreamFails(r) ->
                Effect(<<rq>>, TransportError(prefix, StreamText), dirs, files, <<>>)
          [] r.status = 200 /\ r.body.kind # "zip" ->
                \* zipfile.ZipFile(zip_data) of bytes that are no archive
                Effect(<<rq>>, Raise("BadZipFile"), dirs, files, <<>>)
          [] r.status = 200 ->
                Effect(<<rq>>,
                       Return(TRUE, Dict([message |->
                           "Successfully downloaded and extracted version " \o version])),
                       dirs, ExtractAll(files, <<>>, r.body.entries).files,
                       ExtractAll(files, <<>>, r.body.entries).extracted)
          [] OTHER -> Effect(<<rq>>, ErrorBody(r, prefix), dirs, files, <<>>)

\* PerseusClient.pull
pull(base, app_name, version, r) ==
    LET rq == GET(base, PullPath(app_name, version))
    IN  IF truthy(app_name) THEN PullOne(rq, app_name.val, r)
        ELSE PullBundle(rq, version, r)

----------------------------------------------------------------------------
(* cli.py *)

ReturnCode(code) == [kind |-> "return", code |-> code, exc |-> ""]
SystemExit(code) == [kind |-> "SystemExit", code |-> code, exc |-> ""]
Uncaught(exc) == [kind |-> "raise", code |-> 0 - 1, exc |-> exc]
NoExit == [kind |-> "none", code |-> 0 - 1, exc |-> ""]

\* int(token), for the numerals the model uses (type=int of the port argument)
IsInt(token) == token \in {"5000", "8080"}
int(token) == CASE token = "5000" -> 5000 [] token = "8080" -> 8080

\* the Namespace parse_args returns; error: argparse called parser.error,
\* which prints the usage and raises SystemExit(2)
Namespace(command, sub, host, port, apk_path, app_name, version) ==
    [error |-> FALSE, command |-> command, sub |-> sub, host |-> host, port |-> port,
     apk_path |-> apk_path, app_name |-> app_name, version |-> version]
ParseError ==
    [error |-> TRUE, command |-> "", sub |-> "", host |-> "", port |-> 0,
     apk_path |-> <<>>, app_name |-> NoneArg, version |-> ""]

\* create_parser().parse_args(argv); an absent command or sub-command is ""
parse_args(argv) ==
    LET n == Len(argv)
        ns(command, sub) == Namespace(command, sub, "", 0, <<>>, NoneArg, "")
    IN  CASE n = 0 -> ns("", "")
          [] n > 0 /\ argv[1] = "config" ->
                CASE n = 1 -> ns("config", "")
                  [] n > 1 /\ argv[2] = "show" ->
                        IF n = 2 THEN ns("config", "show") ELSE ParseError
                  [] n > 1 /\ argv[2] = "server" ->
                        IF n = 4 /\ IsInt(argv[4])
                        THEN Namespace("config", "server", argv[3], int(argv[4]),
                                       <<>>, NoneArg, "")
                        ELSE ParseError
                  [] OTHER -> ParseError
          [] n > 0 /\ argv[1] = "list" ->
                CASE n = 1 -> ns("list", "")
                  [] n > 1 /\ argv[2] \in {"versions", "apps", "all"} ->
                        IF n = 2 THEN ns("list", argv[2]) ELSE ParseError
                  [] OTHER -> ParseError
          [] n > 0 /\ argv[1] = "push" ->
                IF n = 2 THEN Namespace("push", "", "", 0, argv[2], NoneArg, "")
                ELSE ParseError
          [] n > 0 /\ argv[1] = "pull" ->
                CASE n = 1 -> Namespace("pull", "", "", 0, <<>>, NoneArg, "latest")
                  [] n = 2 -> Namespace("pull", "", "", 0, <<>>, Some(argv[2]), "latest")
                  [] n = 3 -> Namespace("pull", "", "", 0, <<>>, Some(argv[2]), argv[3])
                  [] OTHER -> ParseError
          [] n > 0 /\ argv[1] = "freeze" ->
                IF n = 2 THEN Namespace("freeze", "", "", 0, <<>>, NoneArg, argv[2])
                ELSE ParseError
          [] OTHER -> ParseError

\* the set_server call a parsed command line leads to (NoWriter: none)
Namespace_server(args) ==
    IF ~args.error /\ args.command = "config" /\ args.sub = "server"
    THEN SetServerWriter(args.host, args.port) ELSE NoWriter

\* what one run of main did
Run(rq, res, ex, cfg, d, f, xs) ==
    [reqs |-> rq, result |-> res, exit |-> ex, cfgFile |-> cfg,
     dirs |-> d, files |-> f, extracted |-> xs]

NoResult == [kind |-> "none", ok |-> FALSE, data |-> Dict(EmptyObj), exc |-> ""]

\* handle_config_command
handle_config_command(args) ==
    LET cfg == ensure_config_exists(cfgFile, DEFAULT_CONFIG)
    IN  CASE args.sub = "server" ->
                Run(<<>>, NoResult, ReturnCode(0),
                    set_server(cfg, DEFAULT_CONFIG, args.host, args.port).file,
                    dirs, files, <<>>)
          [] args.sub = "show" ->
                Run(<<>>, NoResult, ReturnCode(0), cfg, dirs, files, <<>>)
          [] OTHER ->
                Run(<<>>, NoResult, ReturnCode(1), cfg, dirs, files, <<>>)

\* the exit code main and handle_list_command derive from a method's result;
\* for a list command the JSON value of a success must be a dict
\* (result.get('versions', []))
ExitOf(res, needsDict) ==
    CASE res.kind = "raise" -> Uncaught(res.exc)
      [] res.ok /\ needsDict /\ res.data.kind # "object" -> Uncaught("AttributeError")
      [] res.ok -> ReturnCode(0)
      [] OTHER -> ReturnCode(1)

\* the run of a command that called one client method, to the effect e,
\* after the requests rq
Finish(rq, cfg, e, needsDict) ==
    Run(rq \o e.reqs, e.result, ExitOf(e.result, needsDict), cfg,
        e.dirs, e.files, e.extracted)

\* handle_list_command, with the client's config file cfg and base URL
ListWith(args, cfg, base, ro) ==
    CASE args.sub = "versions" -> Finish(<<>>, cfg, list_versions(base, ro), TRUE)
      [] args.sub = "apps" -> Finish(<<>>, cfg, list_apps(base, ro), TRUE)
      [] args.sub = "all" -> Finish(<<>>, cfg, list_all_app_versions(base, ro), TRUE)
      [] OTHER -> Run(<<>>, NoResult, ReturnCode(1), cfg, dirs, files, <<>>)

\* PerseusClient(): ConfigManager() on the config file cfg, and the base URL
\* read from it
PerseusClient(cfg) == [config |-> cfg, base_url |-> get_server_url(cfg, DEFAULT_CONFIG)]

\* handle_list_command, once the client is constructed
ListClient(args, client, ro) == ListWith(args, client.config, client.base_url, ro)

\* handle_list_command
handle_list_command(args, ro) ==
    ListClient(args, PerseusClient(ensure_config_exists(cfgFile, DEFAULT_CONFIG)), ro)

\* Gate going on to the operation whatever the liveness check said
Gate_NotChecked(status, cfg, e) == Finish(status.reqs, cfg, e, FALSE)

\* main, from the liveness check on: status is the outcome of
\* check_server_status, e the effect of the command's client method
Gate(status, cfg, e) ==
    IF ~status.up
    THEN Run(status.reqs, NoResult, ReturnCode(1), cfg, dirs, files, <<>>)
    ELSE Finish(status.reqs, cfg, e, FALSE)

\* the client method main calls for a command
Operation(args, base, ro) ==
    CASE args.command = "push" -> push(base, args.apk_path, ro)
      [] args.command = "pull" -> pull(base, args.app_name, args.version, ro)
      [] OTHER -> freeze(base, args.version, ro)

\* main, from "client = PerseusClient()" on: the commands push, pull, freeze
OperationClient(args, client, rs, ro) ==
    Gate(check_server_status(client.base_url, rs), client.config,
         Operation(args, client.base_url, ro))

handle_operation(args, rs, ro) ==
    OperationClient(args, PerseusClient(ensure_config_exists(cfgFile, DEFAULT_CONFIG)), rs, ro)

\* main(argv)
Dispatch(args, rs, ro) ==
    CASE args.error ->
            Run(<<>>, NoResult, SystemExit(2), cfgFile, dirs, files, <<>>)
      [] args.command = "" ->
            Run(<<>>, NoResult, ReturnCode(1), cfgFile, dirs, files, <<>>)
      [] args.command = "config" -> handle_config_command(args)
      [] args.command = "list" -> handle_list_command(args, ro)
      [] OTHER -> handle_operation(args, rs, ro)

main(argv, rs, ro) == Dispatch(parse_args(argv), rs, ro)

----------------------------------------------------------------------------
(* The environment: local files, arguments, and the answers of the server *)

Calc == <<"c", "a", "l", "c">>
App2 == <<"a", "p", "p", "2">>
Apps == {Calc, App2}

\* artifact bytes: n times the byte b
Fill(b, n) == [i \in 1..n |-> b]
BytesA == Fill("A", MaxBytes)
BytesB == Fill("B", MaxBytes)

CalcApk   == Calc \o DotApk                                  \* calc.apk
UpperApk  == <<"u", "p", "/">> \o App2 \o <<".", "A", "P", "K">>   \* up/app2.APK
NotesTxt  == <<"n", ".", "t", "x", "t">>                     \* n.txt
DirApk    == <<"d", ".", "a", "p", "k">>                     \* d.apk, a directory
GoneApk   == <<"g", ".", "a", "p", "k">>                     \* g.apk, absent
GoneTxt   == <<"g", ".", "t", "x", "t">>                     \* g.txt, absent
ApkX      == Calc \o <<".", "a", "p", "k", "x">>             \* calc.apkx

PushPaths == {CalcApk, UpperApk, NotesTxt, DirApk, GoneApk, GoneTxt, ApkX}

LocalFile(kind, data) == [kind |-> kind, data |-> data]

InitLocalFiles ==
    [p \in {CalcApk, UpperApk, NotesTxt, DirApk, ApkX} |->
        CASE p = DirApk -> LocalFile("dir", <<>>)
          [] p = UpperApk -> LocalFile("file", BytesB)
          [] OTHER -> LocalFile("file", BytesA)]

Versions == {"latest", "v1"}

\* an application the server does not hold
Gone == <<"g", "o", "n", "e">>
AppArgs == {NoneArg, Some(<<>>), Some(Calc), Some(Gone)}

\* GET /api/v1/status
StatusUp == Response(FALSE, 200, JsonObject([status |-> "running"]), NoCut)
StatusResponses == {ConnError, StatusUp, Response(FALSE, 503, NotJson, NoCut)}

\* the bodies of a response that carries no artifact
ErrorBodies == {JsonObject([error |-> "refused"]), JsonObject(EmptyObj), JsonArray, NotJson}
OkBodies == {JsonObject([message |-> "done"]), JsonArray, NotJson}

\* the answers to push, freeze and the list requests
JsonResponses ==
    {ConnError}
      \cup {Response(FALSE, 200, b, NoCut) : b \in OkBodies}
      \cup {Response(FALSE, 409, b, NoCut) : b \in ErrorBodies}

\* the answers to a push: none when the local checks send nothing
PushResponses(apk_path) ==
    IF PushCheck(apk_path) = "ok" /\ localFiles[apk_path].kind = "file"
    THEN JsonResponses ELSE {NoResp}

Entry(app, data) == [name |-> app \o DotApk, data |-> data]
EntryOf(app) == Entry(app, IF app = Calc THEN BytesA ELSE BytesB)

\* bundles as the protocol defines them: one entry <app_name>.apk per application
Archives ==
    {<<>>} \cup {<<EntryOf(a)>> : a \in Apps}
           \cup {<<EntryOf(a), EntryOf(b)>> : <<a, b>> \in {<<Calc, App2>>, <<App2, Calc>>}}

Cuts(bytes) == 0..(Len(iter_content(bytes)) - 1)

NotFoundResponses == {Response(FALSE, 404, b, NoCut) : b \in ErrorBodies}

\* the answers to a pull request: of an application the server holds, of one
\* it does not hold, and of a bundle
PullResponses(app_name) ==
    CASE app_name = Some(Calc) ->
            {ConnError} \cup NotFoundResponses
              \cup {Response(FALSE, 200, Bytes(d), NoCut) : d \in {BytesA, BytesB}}
              \cup {Response(FALSE, 200, Bytes(BytesA), c) : c \in Cuts(BytesA)}
      [] app_name = Some(Gone) ->
            {ConnError} \cup NotFoundResponses
      [] OTHER ->
            {ConnError} \cup NotFoundResponses
              \cup {Response(FALSE, 200, Zip(z), NoCut) : z \in Archives}
              \cup {Response(FALSE, 200, Zip(<<EntryOf(Calc), EntryOf(App2)>>), 0),
                    Response(FALSE, 200, Bytes(BytesA), NoCut)}

----------------------------------------------------------------------------
(* The library client: one action per method of PerseusClient *)

Call(op, apk_path, app_name, version, argv) ==
    [op |-> op, apk_path |-> apk_path, app_name |-> app_name,
     version |-> version, argv |-> argv]

NoCall == Call("none", <<>>, NoneArg, "", <<>>)

\* a method of the client object ran: c with the answer ro, to the effect e
Invoke(c, ro, e) ==
    /\ call' = c
    /\ resp' = [status |-> NoResp, op |-> ro]
    /\ reqs' = e.reqs
    /\ result' = e.result
    /\ dirs' = e.dirs
    /\ files' = e.files
    /\ extracted' = e.extracted
    /\ exit' = NoExit
    /\ UNCHANGED <<cfgFile, cfgWriter, defaultCfg, build, baseUrl, localFiles, repoVars>>

CheckServerStatus ==
    \E r \in StatusResponses :
        LET s == check_server_status(baseUrl, r)
        IN  Invoke(Call("check_server_status", <<>>, NoneArg, "", <<>>), r,
                   Effect(s.reqs, Return(s.up, Dict(EmptyObj)), dirs, files, <<>>))

Push ==
    \E apk_path \in PushPaths : \E r \in PushResponses(apk_path) :
        Invoke(Call("push", apk_path, NoneArg, "", <<>>), r, push(baseUrl, apk_path, r))

Pull ==
    \E app_name \in AppArgs, version \in Versions : \E r \in PullResponses(app_name) :
        Invoke(Call("pull", <<>>, app_name, version, <<>>), r,
               pull(baseUrl, app_name, version, r))

Freeze ==
    \E version \in Versions, r \in JsonResponses :
        Invoke(Call("freeze", <<>>, NoneArg, version, <<>>), r, freeze(baseUrl, version, r))

ListVersions ==
    \E r \in JsonResponses :
        Invoke(Call("list_versions", <<>>, NoneArg, "", <<>>), r, list_versions(baseUrl, r))

ListApps ==
    \E r \in JsonResponses :
        Invoke(Call("list_apps", <<>>, NoneArg, "", <<>>), r, list_apps(baseUrl, r))

ListAllAppVersions ==
    \E r \in JsonResponses :
        Invoke(Call("list_all_app_versions", <<>>, NoneArg, "", <<>>), r,
               list_all_app_versions(baseUrl, r))

\* the state after PerseusClient() in a home directory without a config file
InitCommon ==
    /\ defaultCfg = DEFAULT_CONFIG
    /\ build \in [jsonErrorIsRequestException : BOOLEAN]
    /\ localFiles = InitLocalFiles
    /\ dirs = {}
    /\ files = [p \in {} |-> <<>>]
    /\ call = NoCall
    /\ resp = [status |-> NoResp, op |-> NoResp]
    /\ reqs = <<>>
    /\ extracted = <<>>
    /\ result = NoResult
    /\ exit = NoExit
    /\ registry = [a \in {} |-> <<>>]
    /\ store = [h \in {} |-> <<>>]
    /\ snapshots = [v \in {} |-> <<>>]
    /\ pushed = [a \in {} |-> <<>>]
    /\ frozen = [v \in {} |-> <<>>]

Init ==
    /\ InitCommon
    /\ cfgFile = ensure_config_exists(MissingFile, DEFAULT_CONFIG)
    /\ cfgWriter = WrittenBy(MissingFile, cfgFile, NoWriter)
    /\ baseUrl = get_server_url(cfgFile, DEFAULT_CONFIG)

Next ==
    \/ CheckServerStatus
    \/ Push
    \/ Pull
    \/ Freeze
    \/ ListVersions
    \/ ListApps
    \/ ListAllAppVersions

Spec == Init /\ [][Next]_vars

----------------------------------------------------------------------------
(* The command line: one run of main per action *)

Hosts == {"h1"}
PortTokens == {"8080"}

\* a run of main: argv, the answer rs to the status request and ro to the
\* operation's request (NoResp: the run asked for none)
Ran(argv, rs, ro, m) ==
    /\ call' = Call("main", <<>>, NoneArg, "", argv)
    /\ resp' = [status |-> rs, op |-> ro]
    /\ reqs' = m.reqs
    /\ result' = m.result
    /\ exit' = m.exit
    /\ cfgFile' = m.cfgFile
    /\ cfgWriter' = WrittenBy(cfgFile, m.cfgFile, Namespace_server(parse_args(argv)))
    /\ dirs' = m.dirs
    /\ files' = m.files
    /\ extracted' = m.extracted
    /\ UNCHANGED <<defaultCfg, build, baseUrl, localFiles, repoVars>>

RunMain(argv, rs, ro) == Ran(argv, rs, ro, main(argv, rs, ro))

\* no command, an unknown command, a command without its arguments or with
\* too many
MainUsage ==
    \E argv \in {<<>>, <<"bogus">>, <<"push">>, <<"freeze">>, <<"freeze", "v1", "v2">>,
                 <<"list">>, <<"list", "bogus">>, <<"config">>, <<"config", "bogus">>,
                 <<"config", "server", "h1">>, <<"config", "server", "h1", "http">>} :
        RunMain(argv, NoResp, NoResp)

MainConfig ==
    \/ RunMain(<<"config", "show">>, NoResp, NoResp)
    \/ \E host \in Hosts, port \in PortTokens :
           RunMain(<<"config", "server", host, port>>, NoResp, NoResp)

MainList ==
    \E sub \in {"versions", "apps", "all"}, ro \in JsonResponses :
        RunMain(<<"list", sub>>, NoResp, ro)

\* the server is not live: the status request fails or is answered non-200
MainDown ==
    \E argv \in {<<"push", CalcApk>>, <<"pull">>, <<"pull", Calc>>, <<"freeze", "v1">>},
       rs \in StatusResponses \ {StatusUp} :
        RunMain(argv, rs, NoResp)

MainPush ==
    \E apk_path \in PushPaths : \E ro \in PushResponses(apk_path) :
        RunMain(<<"push", apk_path>>, StatusUp, ro)

MainPull ==
    \/ \E ro \in PullResponses(NoneArg) : RunMain(<<"pull">>, StatusUp, ro)
    \/ \E ro \in PullResponses(Some(Calc)) : RunMain(<<"pull", Calc>>, StatusUp, ro)
    \/ \E ro \in PullResponses(Some(Gone)) : RunMain(<<"pull", Gone, "v1">>, StatusUp, ro)
    \/ RunMain(<<"pull", Calc, "v1", "v2">>, NoResp, NoResp)

MainFreeze ==
    \E ro \in JsonResponses : RunMain(<<"freeze", "v1">>, StatusUp, ro)

\* between runs the config file is removed, or overwritten with text that is
\* not JSON
EnvConfigFile ==
    /\ cfgFile' \in {MissingFile, InvalidFile}
    /\ cfgFile' # cfgFile
    /\ cfgWriter' = NoWriter
    /\ call' = Call("environment", <<>>, NoneArg, "", <<>>)
    /\ resp' = [status |-> NoResp, op |-> NoResp]
    /\ reqs' = <<>>
    /\ extracted' = <<>>
    /\ result' = NoResult
    /\ exit' = NoExit
    /\ UNCHANGED <<defaultCfg, build, baseUrl, localFiles, dirs, files, repoVars>>

InitCli ==
    /\ InitCommon
    /\ cfgFile = MissingFile
    /\ cfgWriter = NoWriter
    /\ baseUrl = ""

NextCli ==
    \/ MainUsage
    \/ MainConfig
    \/ MainList
    \/ MainDown
    \/ MainPush
    \/ MainPull
    \/ MainFreeze
    \/ EnvConfigFile

SpecCli == InitCli /\ [][NextCli]_vars

----------------------------------------------------------------------------
(* Claims about the library client, checked under Spec *)

IsFailure(res) ==
    res.kind = "return" /\ ~res.ok /\ res.data.kind = "object"
        /\ DOMAIN res.data.val = {"error"}

ClientOps == {"push", "pull", "freeze", "list_versions", "list_apps",
              "list_all_app_versions"}

\* C2: push sends nothing unless the path exists locally and its name ends
\* with ".apk" compared case-insensitively: when either check fails the call
\* issues no request and returns (False, {error}); the existence check comes
\* first, so a missing path is reported as not found whatever its extension.
C2_PushValidatesBeforeSending ==
    call.op = "push" =>
        LET p      == call.apk_path
            isFile == p \in DOMAIN localFiles
            isApk  == Len(p) >= 4
                        /\ lower(SubSeq(p, Len(p) - 3, Len(p))) = <<".", "a", "p", "k">>
        IN  /\ (~isFile \/ ~isApk) => (reqs = <<>> /\ IsFailure(result))
            /\ ~isFile => result.data.val.error = <<"APK file '", p, "' not found">>
            /\ \A i \in 1..Len(reqs) : isFile /\ isApk

\* a push of an existing file that is no APK was refused without a request,
\* and so was a push of a missing path with another extension
C2_Witness ==
    /\ call.op = "push"
    /\ call.apk_path = NotesTxt
    /\ reqs = <<>>
    /\ result = Return(FALSE, Dict([error |-> "File must be an APK"]))

\* C3: no method of the client retries: each invocation issues at most one
\* request, and a transport failure, at connect time or while the body is
\* streamed, ends it with one request and the result (False, {error}).
C3_NeverRetries ==
    call.op \in ClientOps =>
        /\ Len(reqs) <= 1
        /\ (resp.op.exc \/ (resp.op.status = 200 /\ resp.op.cut # NoCut)) =>
                (Len(reqs) = 1 /\ IsFailure(result))

\* a pull whose body stream broke after the first chunk
C3_Witness ==
    /\ call.op = "pull"
    /\ resp.op.status = 200
    /\ resp.op.cut = 1
    /\ Len(reqs) = 1
    /\ result = Return(FALSE, Dict([error |-> "Error pulling APK(s): connection broken"]))

\* C4: pull requests exactly one path, chosen by its arguments: without an
\* application name (None, or the empty string) /api/v1/pull for version
\* "latest" and /api/v1/pull/v for any other version v; with an application
\* name a, /api/v1/pull/v/a for every version v, "latest" included.
C4_PullPath ==
    call.op = "pull" =>
        /\ Len(reqs) = 1
        /\ reqs[1].method = "GET"
        /\ reqs[1].base = baseUrl
        /\ reqs[1].path =
             IF call.app_name.some /\ call.app_name.val # <<>>
             THEN <<"api", "v1", "pull", call.version, call.app_name.val>>
             ELSE IF call.version = "latest"
                  THEN <<"api", "v1", "pull">>
                  ELSE <<"api", "v1", "pull", call.version>>

\* an application pulled at "latest" was requested as /api/v1/pull/latest/calc
C4_Witness ==
    /\ call.op = "pull"
    /\ call.app_name = Some(Calc)
    /\ call.version = "latest"
    /\ reqs = <<GET(baseUrl, <<"api", "v1", "pull", "latest", Calc>>)>>

\* C5 as claimed: whenever a pull request is answered with a status other
\* than 200, pull returns (False, {error}) and the working directory is as
\* it was: no directory made, no file written, no entry extracted.
C5_NonOkPullFailsCleanly ==
    [][(call'.op = "pull" /\ Len(reqs') = 1 /\ ~resp'.op.exc /\ resp'.op.status # 200)
          => (IsFailure(result') /\ dirs' = dirs /\ files' = files /\ extracted' = <<>>)]_vars

\* C8: a bundle pull (no application name) answered 200 with an archive that
\* arrived whole extracts every entry under the entry's own name, one
\* extraction per entry in the order of the archive, and then returns
\* success; and a bundle pull returns success only so.
C8_BundleExtractsAll ==
    (call.op = "pull" /\ ~(call.app_name.some /\ call.app_name.val # <<>>)) =>
        LET entries == resp.op.body.entries
            whole   == ~resp.op.exc /\ resp.op.status = 200
                         /\ resp.op.body.kind = "zip" /\ resp.op.cut = NoCut
            all     == /\ extracted = [i \in 1..Len(entries) |-> entries[i].name]
                       /\ \A i \in 1..Len(entries) :
                             /\ entries[i].name \in DOMAIN files
                             /\ files[entries[i].name] = entries[i].data
        IN  /\ whole => (all /\ result.kind = "return" /\ result.ok)
            /\ (result.kind = "return" /\ result.ok) => (whole /\ all)

\* a bundle of two entries was extracted, app2.apk before calc.apk
C8_Witness ==
    /\ call.op = "pull"
    /\ call.app_name = NoneArg
    /\ resp.op.status = 200
    /\ result.ok
    /\ extracted = <<App2 \o DotApk, Calc \o DotApk>>
    /\ files[App2 \o DotApk] = BytesB
    /\ files[Calc \o DotApk] = BytesA

----------------------------------------------------------------------------
(* Claims about the command line, checked under SpecCli *)

StatusPath == <<"api", "v1", "status">>

\* C1 as claimed: every run of main ends by returning 0 or 1, 0 exactly
\* when the command succeeded: no other exit code, no uncaught exception.
C1_ExitCodeIsZeroOrOne ==
    call.op = "main" =>
        /\ exit.kind = "return"
        /\ exit.code \in {0, 1}
        /\ (result.kind # "none") => (exit.code = 0 <=> result.ok)

\* the server answered the request of a push, a freeze or a list command
Answered ==
    /\ call.op = "main"
    /\ Len(call.argv) > 0
    /\ call.argv[1] \in {"push", "freeze", "list"}
    /\ resp.op # NoResp
    /\ ~resp.op.exc

ErrorOf(body) == IF "error" \in DOMAIN body.val THEN body.val.error ELSE "Unknown error"

\* C6: the method returns (True, body) exactly when the status is
\* 200, and for every other status (False, {error: e}) with e the body's
\* error field or "Unknown error"; the CLI then exits 1.
C6_SuccessIffStatus200 ==
    Answered =>
        /\ (result = Return(TRUE, resp.op.body)) <=> (resp.op.status = 200)
        /\ resp.op.status # 200 =>
              /\ result = Return(FALSE, Dict([error |-> ErrorOf(resp.op.body)]))
              /\ exit = ReturnCode(1)

\* the requests of a run are gated by the liveness check: any request other
\* than the status request comes after a status request answered 200
GatedRequests(rq, rs) ==
    \A i \in 1..Len(rq) :
        rq[i].path # StatusPath =>
            /\ i > 1
            /\ rq[1].method = "GET" /\ rq[1].path = StatusPath
            /\ ~rs.exc /\ rs.status = 200

\* the status request of the run failed or was answered with another status
StatusFailed(rq, rs) ==
    /\ Len(rq) > 0
    /\ rq[1].path = StatusPath
    /\ (rs.exc \/ rs.status # 200)

NoStatusRequest(rq) == \A i \in 1..Len(rq) : rq[i].path # StatusPath

\* C10 as claimed: push, pull and freeze send their request only after the
\* status request of the run was answered 200; when it fails or is answered
\* otherwise main returns 1, sends nothing more and touches no local file;
\* config and list send no status request.
C10_GatedAndNoFileTouched ==
    [][(call'.op = "main" /\ Len(call'.argv) > 0) =>
          /\ call'.argv[1] \in {"push", "pull", "freeze"} =>
                /\ GatedRequests(reqs', resp'.status)
                /\ StatusFailed(reqs', resp'.status) =>
                      /\ exit' = ReturnCode(1)
                      /\ Len(reqs') = 1
                      /\ fsVars' = fsVars
          /\ call'.argv[1] \in {"config", "list"} => NoStatusRequest(reqs')]_vars

\* C10 as amended: as claimed, except that the run may touch one local file:
\* constructing the client creates the config file with the defaults when
\* it is missing; the working directory and every other file stay untouched.
C10_GatedByStatus ==
    [][(call'.op = "main" /\ Len(call'.argv) > 0) =>
          /\ call'.argv[1] \in {"push", "pull", "freeze"} =>
                /\ GatedRequests(reqs', resp'.status)
                /\ StatusFailed(reqs', resp'.status) =>
                      /\ exit' = ReturnCode(1)
                      /\ Len(reqs') = 1
                      /\ <<localFiles, dirs, files>>' = <<localFiles, dirs, files>>
                      /\ cfgFile' =
                           IF cfgFile.state = "missing"
                           THEN [state |-> "ok",
                                 config |-> [server |-> [host |-> "localhost",
                                                         port |-> 5000]]]
                           ELSE cfgFile
          /\ call'.argv[1] \in {"config", "list"} => NoStatusRequest(reqs')]_vars

\* a pull whose status request could not connect ended in exit 1 after that
\* one request
C10_Witness ==
    /\ call.op = "main"
    /\ call.argv = <<"pull", Calc>>
    /\ resp.status = ConnError
    /\ reqs = <<GET("http://localhost:5000", StatusPath)>>
    /\ exit = ReturnCode(1)
    /\ cfgFile = save_config(DEFAULT_CONFIG)

----------------------------------------------------------------------------
(* One process holding a ConfigManager, and the config file under it *)

CfgHosts == {"h1", "h2"}
CfgPorts == {8080, 9090}

\* a method of ConfigManager ran: the file and the module's DEFAULT_CONFIG
\* after it, and the value it returned
Configured(op, file, default, setter, value) ==
    /\ call' = Call(op, <<>>, NoneArg, "", <<>>)
    /\ cfgFile' = file
    /\ cfgWriter' = WrittenBy(cfgFile, file, setter)
    /\ defaultCfg' = default
    /\ result' = Return(TRUE, Dict(value))
    /\ resp' = [status |-> NoResp, op |-> NoResp]
    /\ reqs' = <<>>
    /\ extracted' = <<>>
    /\ exit' = NoExit
    /\ UNCHANGED <<build, baseUrl, localFiles, dirs, files, repoVars>>

\* ConfigManager()
NewConfigManager ==
    Configured("ConfigManager", ensure_config_exists(cfgFile, defaultCfg), defaultCfg,
               NoWriter, EmptyObj)

SetServer ==
    \E host \in CfgHosts, port \in CfgPorts :
        LET set == set_server(cfgFile, defaultCfg, host, port)
        IN  Configured("set_server", set.file, set.default,
                       SetServerWriter(host, port), EmptyObj)

LoadConfig ==
    Configured("load_config", cfgFile, defaultCfg, NoWriter,
               load_config(cfgFile, defaultCfg).config)

GetServerInfo ==
    Configured("get_server_info", cfgFile, defaultCfg, NoWriter,
               get_server_info(cfgFile, defaultCfg))

GetServerUrl ==
    Configured("get_server_url", cfgFile, defaultCfg, NoWriter,
               [url |-> get_server_url(cfgFile, defaultCfg)])

InitConfig ==
    /\ InitCommon
    /\ cfgFile = ensure_config_exists(MissingFile, DEFAULT_CONFIG)
    /\ cfgWriter = WrittenBy(MissingFile, cfgFile, NoWriter)
    /\ baseUrl = ""

NextConfig ==
    \/ NewConfigManager
    \/ SetServer
    \/ LoadConfig
    \/ GetServerInfo
    \/ GetServerUrl
    \/ EnvConfigFile

SpecConfig == InitConfig /\ [][NextConfig]_vars

\* C9: whenever the config file is missing or is not valid JSON when it is
\* read, load_config and get_server_info return exactly the built-in default,
\* host localhost and port 5000, whatever set_server did before; whenever the
\* file was last written by set_server(h, p) and is intact, they return (h, p).
C9_DefaultsNeverAltered ==
    LET server == IF call.op = "load_config" THEN result.data.val.server
                  ELSE result.data.val
    IN  call.op \in {"load_config", "get_server_info"} =>
            /\ cfgFile.state # "ok" =>
                    server = [host |-> "localhost", port |-> 5000]
            /\ (cfgFile.state = "ok" /\ cfgWriter.by = "set_server") =>
                    server = [host |-> cfgWriter.host, port |-> cfgWriter.port]

----------------------------------------------------------------------------
(* The client against the repository service.  The service is not part of
   this repository; it is modelled from its design: store (4.1), registry
   (4.2), snapshots (4.3) and the request handlers (4.4, 6). *)

\* the content hash: a pure, injective function of the bytes
Hash(bytes) == [digest |-> bytes]

\* the stem of a file name: the name up to its last dot
RECURSIVE LastDot(_, _)
LastDot(name, i) ==
    IF i = 0 THEN 0 ELSE IF name[i] = "." THEN i ELSE LastDot(name, i - 1)
Stem(name) ==
    LET i == LastDot(name, Len(name))
    IN  IF i <= 1 THEN name ELSE SubSeq(name, 1, i - 1)

\* a mapping with key k bound to v
Bind(m, k, v) == [x \in DOMAIN m \cup {k} |-> IF x = k THEN v ELSE m[x]]

ErrorResponse(status, error) == Response(FALSE, status, JsonObject([error |-> error]), NoCut)

\* the service after a request, and its answer
Served(r, reg, st, snaps) ==
    [resp |-> r, registry |-> reg, store |-> st, snapshots |-> snaps]

\* Push: store.put and registry.update, or InvalidArtifact
ServePush(upload) ==
    IF Len(upload.data) = 0
    THEN Served(ErrorResponse(400, "InvalidArtifact"), registry, store, snapshots)
    ELSE Served(Response(FALSE, 200, JsonObject([message |-> "pushed"]), NoCut),
                Bind(registry, Stem(upload.name), Hash(upload.data)),
                Bind(store, Hash(upload.data), upload.data),
                snapshots)

\* Pull (single app, version): latest by the registry, else by the snapshot
ServePull(version, app) ==
    LET known == IF version = "latest" THEN app \in DOMAIN registry
                 ELSE version \in DOMAIN snapshots /\ app \in DOMAIN snapshots[version]
        hash  == IF version = "latest" THEN registry[app] ELSE snapshots[version][app]
    IN  IF known
        THEN Served(Response(FALSE, 200, Bytes(store[hash]), NoCut), registry, store, snapshots)
        ELSE Served(ErrorResponse(404, "NotFound"), registry, store, snapshots)

\* Freeze: the registry's mapping under a new name, or Conflict; an empty
\* registry freezes to an empty snapshot
ServeFreeze(version) ==
    IF version \in DOMAIN snapshots
    THEN Served(ErrorResponse(409, "Conflict"), registry, store, snapshots)
    ELSE Served(Response(FALSE, 200, JsonObject([status |-> "frozen"]), NoCut),
                registry, store, Bind(snapshots, version, registry))

\* the request handlers by method and path
Serve(rq) ==
    CASE rq.method = "POST" /\ rq.path = <<"api", "v1", "push">> -> ServePush(rq.upload)
      [] rq.method = "GET" /\ Len(rq.path) = 5 /\ SubSeq(rq.path, 1, 3) = <<"api", "v1", "pull">> ->
            ServePull(rq.path[4], rq.path[5])
      [] rq.method = "GET" /\ Len(rq.path) = 4 /\ SubSeq(rq.path, 1, 3) = <<"api", "v1", "freeze">> ->
            ServeFreeze(rq.path[4])
      [] OTHER -> Served(ErrorResponse(404, "NotFound"), registry, store, snapshots)

\* the service's part in a method call that sent the requests sent (the
\* client sends one request at most)
Exchange(sent) ==
    IF Len(sent) = 0 THEN Served(NoResp, registry, store, snapshots) ELSE Serve(sent[1])

\* a method of the client ran against the service
Exchanged(c, sv, e, p, fz) ==
    /\ call' = c
    /\ resp' = [status |-> NoResp, op |-> sv.resp]
    /\ reqs' = e.reqs
    /\ result' = e.result
    /\ dirs' = e.dirs
    /\ files' = e.files
    /\ extracted' = e.extracted
    /\ exit' = NoExit
    /\ registry' = sv.registry
    /\ store' = sv.store
    /\ snapshots' = sv.snapshots
    /\ pushed' = IF e.result.ok THEN p ELSE pushed
    /\ frozen' = IF e.result.ok THEN fz ELSE frozen
    /\ UNCHANGED <<cfgFile, cfgWriter, defaultCfg, build, baseUrl, localFiles>>

RepoPushPaths == {CalcApk, UpperApk, NotesTxt, GoneApk}
RepoVersions == {"latest", "v1", "v2"}

PushTo(apk_path, sv) ==
    Exchanged(Call("push", apk_path, NoneArg, "", <<>>), sv,
              push(baseUrl, apk_path, sv.resp),
              Bind(pushed, Stem(basename(apk_path)), localFiles[apk_path].data), frozen)

RepoPush ==
    \E apk_path \in RepoPushPaths :
        PushTo(apk_path, Exchange(push(baseUrl, apk_path, NoResp).reqs))

FreezeAs(version, sv) ==
    Exchanged(Call("freeze", <<>>, NoneArg, version, <<>>), sv,
              freeze(baseUrl, version, sv.resp), pushed, Bind(frozen, version, pushed))

RepoFreeze ==
    \E version \in {"v1"} :
        FreezeAs(version, Exchange(freeze(baseUrl, version, NoResp).reqs))

PullFrom(app_name, version, sv) ==
    Exchanged(Call("pull", <<>>, app_name, version, <<>>), sv,
              pull(baseUrl, app_name, version, sv.resp), pushed, frozen)

RepoPull ==
    \E app \in Apps, version \in RepoVersions :
        PullFrom(Some(app), version, Exchange(pull(baseUrl, Some(app), version, NoResp).reqs))

\* the user rebuilds an APK: the local file holds other bytes
RepoRebuild ==
    \E apk_path \in {CalcApk, UpperApk}, data \in {BytesA, BytesB} :
        /\ localFiles[apk_path].data # data
        /\ localFiles' = [localFiles EXCEPT ![apk_path].data = data]
        /\ call' = Call("environment", <<>>, NoneArg, "", <<>>)
        /\ resp' = [status |-> NoResp, op |-> NoResp]
        /\ reqs' = <<>>
        /\ extracted' = <<>>
        /\ result' = NoResult
        /\ exit' = NoExit
        /\ UNCHANGED <<cfgFile, cfgWriter, defaultCfg, build, baseUrl, dirs, files, repoVars>>

InitRepo == Init

NextRepo ==
    \/ RepoPush
    \/ RepoFreeze
    \/ RepoPull
    \/ RepoRebuild

SpecRepo == InitRepo /\ [][NextRepo]_vars

\* C7: a frozen version is immutable with respect to later pushes.  A
\* successful pull of application A at "latest" leaves in A/A.apk the bytes of
\* the most recent push to A, a successful pull of A at a frozen version v
\* leaves there the bytes A had when v was frozen, whatever was pushed since;
\* in both cases the file holds exactly the bytes the service streamed.
C7_FrozenVersionImmutable ==
    (call.op = "pull" /\ result.kind = "return" /\ result.ok) =>
        LET A    == call.app_name.val
            v    == call.version
            path == path_join(A, A \o DotApk)
        IN  /\ path \in DOMAIN files
            /\ resp.op.body.kind = "bytes"
            /\ files[path] = resp.op.body.bytes
            /\ IF v = "latest"
               THEN A \in DOMAIN pushed /\ files[path] = pushed[A]
               ELSE /\ v \in DOMAIN frozen
                    /\ A \in DOMAIN frozen[v]
                    /\ files[path] = frozen[v][A]

\* calc pulled at the frozen v1 gives the bytes frozen, while latest has moved on
C7_Witness ==
    /\ call.op = "pull"
    /\ call.app_name = Some(Calc)
    /\ call.version = "v1"
    /\ result.kind = "return"
    /\ result.ok
    /\ files[path_join(Calc, CalcApk)] = BytesA
    /\ Calc \in DOMAIN pushed
    /\ pushed[Calc] = BytesB

----------------------------------------------------------------------------
\* the artifact file of a single-application pull
ArtifactPath(app) == path_join(app, app \o DotApk)

\* file path is the same in f and g: absent in both, or of the same content
SameFile(f, g, path) ==
    IF path \in DOMAIN f THEN path \in DOMAIN g /\ g[path] = f[path]
    ELSE path \notin DOMAIN g

\* C11: a pull of one application that returns (False, ...), a transport
\* failure after some of the body chunks included, leaves the file
\* <app_name>/<app_name>.apk as it was: absent if it was absent, else with the
\* content it had; a pull that returns success leaves in it the complete
\* response body.
C11_FailedPullLeavesArtifact ==
    [][(call'.op = "pull" /\ truthy(call'.app_name) /\ result'.kind = "return") =>
          LET path == ArtifactPath(call'.app_name.val)
          IN  /\ ~result'.ok => SameFile(files, files', path)
              /\ result'.ok =>
                    /\ path \in DOMAIN files'
                    /\ files'[path] = resp'.op.body.bytes]_vars

====
